---- MODULE Spec2Model ----
(***************************************************************************)
(* Waybaccino (src/waybaccino.py): paginated retrieval of archived URLs    *)
(* from the CDX index service, optional parameter filtering, optional      *)
(* replay through a proxy, for one domain or a list of domains.            *)
(*                                                                         *)
(* The program is single-threaded.  Each network call is modelled as two   *)
(* steps (the request is issued, the outcome arrives) so that the requests *)
(* in flight are part of the state.                                        *)
(***************************************************************************)
EXTENDS Integers, Sequences, FiniteSets, Bags, TLC

(***************************************************************************)
(* Bounds of the model.                                                    *)
(***************************************************************************)
MaxIndex == 3        \* largest number of URLs the upstream index holds for a domain
MaxChunk == 2        \* largest --chunk-size tried (the smallest is 1)
MaxLines == 2        \* largest number of lines of the domain-list file

(***************************************************************************)
(* Python values.  An optional argument is <<>> (None) or <<v>>.           *)
(***************************************************************************)
None == <<>>

Some(v) == <<v>>

\* Python truthiness of an optional string argument: None and "" are falsy.
Truthy(opt) == opt # None /\ opt[1] # ""

IsSpace(c) == c \in {" ", "\t", "\n", "\r"}

RECURSIVE LStrip(_)
LStrip(s) == IF Len(s) > 0 /\ IsSpace(Head(s)) THEN LStrip(Tail(s)) ELSE s

RECURSIVE RStrip(_)
RStrip(s) ==
    IF Len(s) > 0 /\ IsSpace(SubSeq(s, Len(s), Len(s)))
    THEN RStrip(SubSeq(s, 1, Len(s) - 1))
    ELSE s

\* str.strip()
Strip(s) == RStrip(LStrip(s))

\* a filter that matches the parameter's name without the leading "?"
Contains_WithoutMark(url, param) ==
    \E i \in 1..(Len(url) - Len(param) + 2) : SubSeq(url, i, i + Len(param) - 2) = Tail(param)

\* "param in url": literal substring containment
Contains(url, param) ==
    \E i \in 1..(Len(url) - Len(param) + 1) : SubSeq(url, i, i + Len(param) - 1) = param

ALLOWED_PARAMS ==
    << "?q=", "?s=", "?search=", "?id=", "?lang=", "?keyword=", "?query=",
       "?page=", "?keywords=", "?year=", "?view=", "?email=", "?type=", "?name=",
       "?p=", "?month=", "?image=", "?list_type=", "?url=", "?terms=",
       "?categoryid=", "?key=", "?login=", "?begindate=", "?enddate=" >>

\* any(param in url for param in ALLOWED_PARAMS)
AnyAllowedParam(url) ==
    \E k \in 1..Len(ALLOWED_PARAMS) : Contains(url, ALLOWED_PARAMS[k])

\* [url for url in chunk_urls if any(param in url for param in ALLOWED_PARAMS)]
RECURSIVE FilterParams(_)
FilterParams(chunk_urls) ==
    IF chunk_urls = <<>> THEN <<>>
    ELSE (IF AnyAllowedParam(Head(chunk_urls)) THEN << Head(chunk_urls) >> ELSE <<>>)
         \o FilterParams(Tail(chunk_urls))

Min(a, b) == IF a < b THEN a ELSE b

(***************************************************************************)
(* The environment: the upstream index, the domain-list file.              *)
(***************************************************************************)
U_ID      == "http://x.com/?id=5"
U_FOO     == "http://x.com/page?foo=1"
U_KEYWORD == "http://x.com/keyword=1"

\* The archive's catalogue, read cyclically: every upstream listing of the
\* model is a run of consecutive catalogue entries that starts at the first or
\* at the second entry.
CATALOGUE == << U_ID, U_FOO, U_KEYWORD, U_FOO >>

Window(start, m) == [k \in 1..m |-> CATALOGUE[((start + k - 1) % Len(CATALOGUE)) + 1]]

Listings == { Window(start, m) : start \in { 0, 1 }, m \in 0..MaxIndex }

\* The domains a query can name, after trimming.
DOMAINS == { "a.com", "b.com", "" }

\* The upstream index: the listing of each domain.  The second domain holds
\* one URL and nothing is archived under the empty domain.
Indexes ==
    { [d \in DOMAINS |->
         IF d = "a.com" THEN listing ELSE IF d = "b.com" THEN << U_KEYWORD >> ELSE <<>>] :
      listing \in Listings }

\* Lines of a domain-list file as iterating over the file yields them.  The
\* files of the model are the runs of consecutive lines of LINES, read
\* cyclically.
LINES == << " a.com\n", " \n", "b.com \n" >>

DomainFiles ==
    { [k \in 1..m |-> LINES[((start + k - 1) % Len(LINES)) + 1]] :
        start \in 0..(Len(LINES) - 1), m \in 0..MaxLines }

LIST_FILE == "list.txt"

\* os.path.exists: the only file of the model's file system is LIST_FILE
Exists(path) == path = LIST_FILE

HEADER == << "original" >>

\* The JSON body the index service sends for limit/offset over a listing:
\* the rows [offset, offset+limit) under a header row.
Rows(listing, limit, off) ==
    [k \in 1..(Min(off + limit, Len(listing)) - Min(off, Len(listing))) |-> << listing[off + k] >>]

\* With no row to send the service answers [] or the header row alone.
Bodies(listing, limit, off) ==
    IF Rows(listing, limit, off) = <<>>
    THEN { <<>>, << HEADER >> }
    ELSE { << HEADER >> \o Rows(listing, limit, off) }

\* A body that is valid JSON but holds a row with no element 0.
EMPTY_ROW_BODY == << HEADER, <<>> >>

CURRENT_YEAR == 2026

(***************************************************************************)
(* fetch_wayback_urls: the computations of one turn of the loop.           *)
(***************************************************************************)
\* a window that counts the current year as one of the years
TimeWindow_Inclusive(years) ==
    IF years # None /\ years[1] # 0 /\ years[1] > 0
    THEN Some(<< CURRENT_YEAR - years[1] + 1, CURRENT_YEAR >>)
    ELSE None

\* "&from=..&to=.." of the base query, None without a time window
TimeWindow(years) ==
    IF years # None /\ years[1] # 0 /\ years[1] > 0
    THEN Some(<< CURRENT_YEAR - years[1], CURRENT_YEAR >>)
    ELSE None

\* a loop that keeps the header row
RawUrls_KeepsHeader(data) == data

\* raw_urls = data[1:] if len(data) > 1 else []
RawUrls(data) == IF Len(data) > 1 THEN Tail(data) ELSE <<>>

\* item[0] raises IndexError on a row without columns
HasEmptyRow(raw_urls) == \E k \in 1..Len(raw_urls) : Len(raw_urls[k]) = 0

\* chunk_urls = [item[0] for item in raw_urls]
FirstColumn(raw_urls) == [k \in 1..Len(raw_urls) |-> raw_urls[k][1]]

\* chunk_urls after the optional parameter filtering
ChunkUrls(raw_urls, param_filter) ==
    IF param_filter THEN FilterParams(FirstColumn(raw_urls)) ELSE FirstColumn(raw_urls)

\* a loop that only an empty page ends
ShortPage_Never(raw_urls, chunk_urls, chunk_size) == FALSE

\* a loop that also stops after a full page
ShortPage_OrFull(raw_urls, chunk_urls, chunk_size) == Len(raw_urls) <= chunk_size

\* a loop that measures the page after filtering
ShortPage_Filtered(raw_urls, chunk_urls, chunk_size) == Len(chunk_urls) < chunk_size

\* if len(raw_urls) < chunk_size: break    (chunk_urls is in scope there)
ShortPage(raw_urls, chunk_urls, chunk_size) == Len(raw_urls) < chunk_size

\* a loop whose pages overlap
NextOffset_ByOne(off, chunk_size) == off + 1

\* a loop that skips the row at a page boundary
NextOffset_SkipsOne(off, chunk_size) == off + chunk_size + 1

\* offset += chunk_size
NextOffset(off, chunk_size) == off + chunk_size

(***************************************************************************)
(* State.                                                                  *)
(***************************************************************************)
VARIABLES
    args,               \* the parsed command line
    list_lines,         \* the lines of LIST_FILE
    index,              \* the upstream index: domain -> listing
    outfile,            \* the content of the output file, a sequence of lines
    pc,                 \* where main is
    exit_code,          \* the status the process ended with, None while it runs
    domains,            \* main: the domains read from the list file
    call,               \* how many times fetch_wayback_urls has been called
    domain,             \* the domain of the current call
    offset,             \* fetch_wayback_urls: offset
    all_filtered_urls,  \* fetch_wayback_urls: all_filtered_urls
    urls,               \* main: the list the last call returned
    i,                  \* get_urls_through_proxy: the loop index
    total_ok,           \* get_urls_through_proxy: total_ok
    inflight,           \* the network requests awaiting their outcome
    net,                \* every network request issued so far, in order
    received,           \* the bodies the current call has parsed, in order
    outcomes,           \* the outcomes of the current replay's requests, a bag
    stdout,             \* the lines printed so far
    stderr              \* the diagnostics printed so far

vars == << args, list_lines, index, outfile, pc, exit_code, domains, call, domain,
           offset, all_filtered_urls, urls, i, total_ok, inflight, net, received,
           outcomes, stdout, stderr >>

env == << args, list_lines, index >>

fetch_locals == << offset, all_filtered_urls, received >>

replay_locals == << i, total_ok, outcomes >>

\* One printed line: its kind, a string and two numbers.  The diagnostic of
\* fetch_wayback_urls carries the domain and the offset; its second number is the
\* call that printed it, which is not part of the text.
Line(t, s, n, m) == [t |-> t, s |-> s, n |-> n, m |-> m]

\* One network request.  A page request carries limit, offset and the time
\* window of the query; a replay request carries the URL.
PageRequest(d, limit, off, window) ==
    [kind |-> "page", call |-> call, target |-> d, limit |-> limit, offset |-> off,
     window |-> window]

ReplayRequest(url) ==
    [kind |-> "replay", call |-> call, target |-> url, limit |-> 0, offset |-> 0,
     window |-> None]

PROXY == "http://127.0.0.1:8080"

OUT_FILE == "out.txt"

\* What the output file held before the run.
OLD_CONTENT == << "http://old.example/" >>

ArgSets ==
    [ single_target    : { None, Some(""), Some(" "), Some(" a.com ") },
      multiple_targets : { None, Some("missing.txt"), Some(" list.txt ") },
      output_file      : { None, Some(OUT_FILE) },
      years            : { None, Some(0), Some(2) },
      chunk_size       : 1..MaxChunk,
      param_filter     : BOOLEAN,
      burp_proxy       : { None, Some(PROXY) } ]

\* A run that stops at the command line reads neither the list file nor the
\* index; a single-target run does not read the list file.
ReadsList(a) == ~Truthy(a.single_target) /\ Truthy(a.multiple_targets)
                    /\ Exists(Strip(a.multiple_targets[1]))

Fetches(a) == ReadsList(a) \/ (Truthy(a.single_target) /\ ~Truthy(a.multiple_targets))

Init ==
    /\ args \in ArgSets
    /\ list_lines \in DomainFiles
    /\ index \in Indexes
    /\ ~ReadsList(args) => list_lines = <<>>
    /\ ~Fetches(args) => index["a.com"] = <<>>
    /\ ~Fetches(args) =>
          /\ args.output_file = None /\ args.years = None /\ args.chunk_size = 1
          /\ ~args.param_filter /\ args.burp_proxy = None
    /\ outfile = OLD_CONTENT
    /\ pc = "parse_args"
    /\ exit_code = None
    /\ domains = <<>>
    /\ call = 0
    /\ domain = ""
    /\ offset = 0
    /\ all_filtered_urls = <<>>
    /\ urls = <<>>
    /\ i = 0
    /\ total_ok = 0
    /\ inflight = {}
    /\ net = <<>>
    /\ received = <<>>
    /\ outcomes = EmptyBag
    /\ stdout = <<>>
    /\ stderr = <<>>

(***************************************************************************)
(* main: the command line.                                                 *)
(***************************************************************************)
\* parser.error: the message on stderr, exit status 2
ParserError(msg) ==
    /\ stderr' = Append(stderr, Line("usage", msg, 0, 0))
    /\ exit_code' = Some(2)
    /\ pc' = "exited"

\* a command line checked for a missing target only
TargetsError_NeitherOnly(single_target, multiple_targets) ==
    IF ~Truthy(single_target) /\ ~Truthy(multiple_targets)
    THEN "Please provide either '--single-target' or '--multiple-targets'."
    ELSE ""

\* the two checks that exactly one kind of target is given: the message of
\* the check that fails, "" when both pass
TargetsError(single_target, multiple_targets) ==
    IF ~Truthy(single_target) /\ ~Truthy(multiple_targets)
    THEN "Please provide either '--single-target' or '--multiple-targets'."
    ELSE IF Truthy(single_target) /\ Truthy(multiple_targets)
    THEN "Please provide only one: '--single-target' OR '--multiple-targets'."
    ELSE ""

ParseArgs ==
    /\ pc = "parse_args"
    /\ IF TargetsError(args.single_target, args.multiple_targets) # ""
       THEN ParserError(TargetsError(args.single_target, args.multiple_targets))
       ELSE /\ pc' = IF Truthy(args.single_target) THEN "single_target" ELSE "multiple_targets"
            /\ UNCHANGED << stderr, exit_code >>
    /\ UNCHANGED << env, outfile, domains, call, domain, fetch_locals, urls,
                    replay_locals, inflight, net, stdout >>

\* the lines main prints before it calls fetch_wayback_urls for d
Banner(d) ==
    << Line("fetching", d, 0, 0) >>
    \o (IF args.years # None /\ args.years[1] # 0
        THEN << Line("years", "", args.years[1], 0) >> ELSE <<>>)
    \o (IF args.param_filter THEN << Line("params", "", 0, 0) >> ELSE <<>>)

\* the call of fetch_wayback_urls(domain=d, ...) up to the head of its loop;
\* nothing is left of the locals of the calls made for the domain before
CallFetch(d) ==
    /\ domain' = d
    /\ stdout' = stdout \o Banner(d)
    /\ call' = call + 1
    /\ offset' = 0
    /\ all_filtered_urls' = <<>>
    /\ received' = <<>>
    /\ i' = 0
    /\ total_ok' = 0
    /\ outcomes' = EmptyBag
    /\ pc' = "page_send"

SingleTarget ==
    /\ pc = "single_target"
    /\ CallFetch(Strip(args.single_target[1]))
    /\ UNCHANGED << env, outfile, exit_code, domains, urls, inflight, net, stderr >>

\* [line.strip() for line in f if line.strip()]
RECURSIVE StripLines(_)
StripLines(lines) ==
    IF lines = <<>> THEN <<>>
    ELSE (IF Strip(Head(lines)) # "" THEN << Strip(Head(lines)) >> ELSE <<>>)
         \o StripLines(Tail(lines))

MultipleTargets ==
    /\ pc = "multiple_targets"
    /\ IF ~Exists(Strip(args.multiple_targets[1]))
       THEN /\ stderr' = Append(stderr, Line("no_file", Strip(args.multiple_targets[1]), 0, 0))
            /\ exit_code' = Some(1)
            /\ pc' = "exited"
            /\ UNCHANGED domains
       ELSE /\ domains' = StripLines(list_lines)
            /\ pc' = "for_domain"
            /\ UNCHANGED << stderr, exit_code >>
    /\ UNCHANGED << env, outfile, call, domain, fetch_locals, urls, replay_locals,
                    inflight, net, stdout >>

\* for domain in domains: the next domain, if any
ForDomain ==
    /\ pc = "for_domain"
    /\ call < Len(domains)
    /\ CallFetch(domains[call + 1])
    /\ UNCHANGED << env, outfile, exit_code, domains, urls, inflight, net, stderr >>

\* main returns: the process ends with status 0
Finish ==
    /\ \/ pc = "for_domain" /\ call = Len(domains)
       \/ pc = "end_main"
    /\ pc' = "exited"
    /\ exit_code' = Some(0)
    /\ UNCHANGED << env, outfile, domains, call, domain, fetch_locals, urls,
                    replay_locals, inflight, net, stdout, stderr >>

\* where main goes on after a domain's output and replay
AfterDomain == IF Truthy(args.single_target) THEN "end_main" ELSE "for_domain"

(***************************************************************************)
(* fetch_wayback_urls: the loop.                                           *)
(***************************************************************************)
\* requests.get(cdx_api_url, timeout=120) is issued
SendPage ==
    /\ pc = "page_send"
    /\ LET req == PageRequest(domain, args.chunk_size, offset, TimeWindow(args.years))
       IN  /\ inflight' = inflight \cup { req }
           /\ net' = Append(net, req)
    /\ pc' = "page_wait"
    /\ UNCHANGED << env, outfile, exit_code, domains, call, domain, fetch_locals, urls,
                    replay_locals, stdout, stderr >>

\* break / return all_filtered_urls, with result the list returned
Return(result) ==
    /\ urls' = result
    /\ pc' = "output"

\* an exception no handler catches: traceback, exit status 1
Crash(what) ==
    /\ stderr' = Append(stderr, Line("traceback", what, 0, 0))
    /\ exit_code' = Some(1)
    /\ pc' = "exited"

\* a handler that gives up the URLs accumulated so far
CaughtError_DropsUrls ==
    /\ stderr' = Append(stderr, Line("fetch_error", domain, offset, call))
    /\ Return(<<>>)
    /\ UNCHANGED << exit_code, fetch_locals >>

\* a handler that ends the process
CaughtError_Exits ==
    /\ stderr' = Append(stderr, Line("fetch_error", domain, offset, call))
    /\ exit_code' = Some(1)
    /\ pc' = "exited"
    /\ UNCHANGED << urls, fetch_locals >>

\* except requests.exceptions.RequestException: the diagnostic, then break
CaughtError ==
    /\ stderr' = Append(stderr, Line("fetch_error", domain, offset, call))
    /\ Return(all_filtered_urls)
    /\ UNCHANGED << exit_code, fetch_locals >>

\* The request times out, the connection fails or raise_for_status() raises.
PageFails ==
    /\ pc = "page_wait"
    /\ inflight' = {}
    /\ CaughtError
    /\ UNCHANGED << env, outfile, domains, call, domain, replay_locals, net, stdout >>

\* The body is not JSON: response.json() raises.  The exception is a
\* RequestException in requests 2.27 and later and a plain ValueError before, so
\* it is caught or not according to the installed library.
PageNotJson ==
    /\ pc = "page_wait"
    /\ inflight' = {}
    /\ \/ CaughtError
       \/ Crash("ValueError") /\ UNCHANGED << urls, fetch_locals >>
    /\ UNCHANGED << env, outfile, domains, call, domain, replay_locals, net, stdout >>

\* The body is JSON: the rest of the loop's turn.
PageArrives ==
    /\ pc = "page_wait"
    /\ inflight' = {}
    /\ \E data \in Bodies(index[domain], args.chunk_size, offset) \cup { EMPTY_ROW_BODY } :
         LET raw_urls == RawUrls(data)
             chunk_urls == ChunkUrls(raw_urls, args.param_filter)
         IN  /\ received' = Append(received, data)
             /\ IF raw_urls = <<>>
                THEN /\ Return(all_filtered_urls)
                     /\ UNCHANGED << offset, all_filtered_urls, stderr, exit_code >>
                ELSE IF HasEmptyRow(raw_urls)
                THEN /\ Crash("IndexError")
                     /\ UNCHANGED << offset, all_filtered_urls, urls >>
                ELSE /\ all_filtered_urls' = all_filtered_urls \o chunk_urls
                     /\ IF ShortPage(raw_urls, chunk_urls, args.chunk_size)
                        THEN /\ Return(all_filtered_urls \o chunk_urls)
                             /\ UNCHANGED offset
                        ELSE /\ offset' = NextOffset(offset, args.chunk_size)
                             /\ pc' = "page_send"
                             /\ UNCHANGED urls
                     /\ UNCHANGED << stderr, exit_code >>
    /\ UNCHANGED << env, outfile, domains, call, domain, replay_locals, net, stdout >>

(***************************************************************************)
(* get_urls_through_proxy: the computations of the loop.                   *)
(***************************************************************************)
\* The outcomes of a GET through the proxy: a response with a 2xx status, a
\* response with another status, or an exception of the transport.
OUTCOMES == { "2xx", "non2xx", "exception" }

\* a loop that counts only the responses with a 2xx status
CountOk_Only2xx(n, outcome) == IF outcome = "2xx" THEN n + 1 ELSE n

\* r = requests.get(...); total_ok += 1 / except Exception: pass
CountOk(n, outcome) == IF outcome = "exception" THEN n ELSE n + 1

\* a loop that an exception ends
ReplayLoop_StopsOnError(n, total, outcome) ==
    IF n < total /\ outcome # "exception" THEN "replay_send" ELSE "replay_end"

\* a loop that replays the first URL only
ReplayLoop_OneOnly(n, total, outcome) ==
    IF n < total /\ n < 1 THEN "replay_send" ELSE "replay_end"

\* for i, url in enumerate(urls, start=1): after n of total URLs the loop takes
\* its next turn or is over, whatever the outcome of the n-th GET
ReplayLoop(n, total, outcome) == IF n < total THEN "replay_send" ELSE "replay_end"

(***************************************************************************)
(* main: the output of one domain.                                         *)
(***************************************************************************)
\* for u in urls: f.write(u + "\n")
WrittenLines(us) == [k \in 1..Len(us) |-> us[k] \o "\n"]

\* a file opened for writing instead of appending
FileAfterWrite_Truncates(content, us) == WrittenLines(us)

\* with open(args.output_file, "a") ...: the file after the URLs are written
FileAfterWrite(content, us) == content \o WrittenLines(us)

\* for u in urls: print(u)
PrintedLines(us) == [k \in 1..Len(us) |-> Line("url", us[k], 0, 0)]

\* the total, the URLs to the file (appended) or to stdout, and the start of
\* the replay when a proxy is given
Output ==
    /\ pc = "output"
    /\ outfile' = IF Truthy(args.output_file) THEN FileAfterWrite(outfile, urls) ELSE outfile
    /\ stdout' = stdout
                 \o << Line("total", "", Len(urls), 0) >>
                 \o (IF Truthy(args.output_file) THEN <<>> ELSE PrintedLines(urls))
                 \o (IF Truthy(args.burp_proxy)
                     THEN << Line("proxy", args.burp_proxy[1], 0, 0) >> ELSE <<>>)
    /\ IF Truthy(args.burp_proxy)
       THEN /\ i' = 0
            /\ total_ok' = 0
            /\ outcomes' = EmptyBag
            /\ pc' = ReplayLoop(0, Len(urls), "")
       ELSE /\ pc' = AfterDomain
            /\ UNCHANGED replay_locals
    /\ UNCHANGED << env, exit_code, domains, call, domain, fetch_locals, urls, inflight,
                    net, stderr >>

(***************************************************************************)
(* get_urls_through_proxy: the loop.                                       *)
(***************************************************************************)
\* the next turn of the loop: the progress line, then the GET is issued
ReplaySend ==
    /\ pc = "replay_send"
    /\ i' = i + 1
    /\ stdout' = Append(stdout, Line("progress", "", i + 1, Len(urls)))
    /\ LET req == ReplayRequest(urls[i + 1])
       IN  /\ inflight' = inflight \cup { req }
           /\ net' = Append(net, req)
    /\ pc' = "replay_wait"
    /\ UNCHANGED << env, outfile, exit_code, domains, call, domain, fetch_locals, urls,
                    total_ok, outcomes, stderr >>

\* the GET ends
ReplayOutcome ==
    /\ pc = "replay_wait"
    /\ inflight' = {}
    /\ \E outcome \in OUTCOMES :
         /\ total_ok' = CountOk(total_ok, outcome)
         /\ outcomes' = outcomes (+) SetToBag({ outcome })
         /\ pc' = ReplayLoop(i, Len(urls), outcome)
    /\ UNCHANGED << env, outfile, exit_code, domains, call, domain, fetch_locals, urls,
                    i, net, stdout, stderr >>

\* the loop is over: the summary line
ReplayFinish ==
    /\ pc = "replay_end"
    /\ stdout' = Append(stdout, Line("finished", "", total_ok, Len(urls)))
    /\ pc' = AfterDomain
    /\ UNCHANGED << env, outfile, exit_code, domains, call, domain, fetch_locals, urls,
                    replay_locals, inflight, net, stderr >>

Next ==
    \/ ParseArgs
    \/ SingleTarget
    \/ MultipleTargets
    \/ ForDomain
    \/ Finish
    \/ SendPage
    \/ PageFails
    \/ PageNotJson
    \/ PageArrives
    \/ Output
    \/ ReplaySend
    \/ ReplayOutcome
    \/ ReplayFinish

Spec == Init /\ [][Next]_vars

\* The runs followed to their end: those to the console, without time window
\* and without parameter filter.
FairInit ==
    /\ Init
    /\ args.output_file = None
    /\ args.years = None
    /\ ~args.param_filter

\* The program always takes its next step, and every request ends: the page
\* requests and the replay requests carry a timeout.
FairSpec == FairInit /\ [][Next]_vars /\ WF_vars(Next)

(***************************************************************************)
(* Observations used by the properties.                                    *)
(***************************************************************************)
Last(q) == q[Len(q)]

\* the page requests, and the replay requests, that call c issued, in order
PageRequests(c) == SelectSeq(net, LAMBDA r : r.kind = "page" /\ r.call = c)

ReplayRequests(c) == SelectSeq(net, LAMBDA r : r.kind = "replay" /\ r.call = c)

\* the diagnostics that call c of fetch_wayback_urls printed
Diagnostics(c) == SelectSeq(stderr, LAMBDA l : l.t = "fetch_error" /\ l.m = c)

\* fetch_wayback_urls has returned to main and main has not used the result yet
Returned == pc = "output"

\* every page request of the current call was answered with a body that parsed
NoRequestFailed == Len(received) = Len(PageRequests(call))

\* the last page request of the current call failed
LastRequestFailed == Len(PageRequests(call)) = Len(received) + 1

\* the number of rows under the header row of a body
RowCount(body) == IF Len(body) = 0 THEN 0 ELSE Len(body) - 1

(***************************************************************************)
(* C1.  With no request failing, a domain whose index holds M URLs is      *)
(* fetched with page size N in exactly floor(M/N)+1 page requests.  When N *)
(* divides M the last of them returns an empty page; M = 0 gives one       *)
(* request, an empty result and no diagnostic; a first page of fewer than  *)
(* N rows is the only page requested.                                      *)
(***************************************************************************)
C1_PageRequestCount ==
    (Returned /\ NoRequestFailed) =>
        LET M == Len(index[domain])
            N == args.chunk_size
        IN  /\ Len(PageRequests(call)) = (M \div N) + 1
            /\ (M % N = 0) => RowCount(Last(received)) = 0
            /\ (M = 0) => (urls = <<>> /\ Diagnostics(call) = <<>>)
            /\ (RowCount(received[1]) < N) => Len(PageRequests(call)) = 1

\* an index of two full pages has been fetched in three requests
C1_Witness ==
    /\ Returned /\ NoRequestFailed
    /\ args.chunk_size = 1
    /\ Len(index[domain]) = 2
    /\ Len(PageRequests(call)) = 3

(***************************************************************************)
(* C2.  Whether another page is requested depends on the unfiltered page   *)
(* alone, so the page requests are the same with and without the parameter *)
(* filter: after a body of pageSize rows the next request is issued, at    *)
(* offset + pageSize, also when the filter removed every row; after a      *)
(* shorter body none is.  (A body with a row that has no column ends the   *)
(* process and is left out.)                                               *)
(***************************************************************************)
C2_FilterIndependent ==
    \A k \in 1..Len(received) :
        ~HasEmptyRow(RawUrls(received[k])) =>
            IF RowCount(received[k]) = args.chunk_size
            THEN \/ /\ Len(PageRequests(call)) > k
                    /\ PageRequests(call)[k + 1].offset
                          = PageRequests(call)[k].offset + args.chunk_size
                 \/ /\ k = Len(received)
                    /\ pc = "page_send"
                    /\ offset = PageRequests(call)[k].offset + args.chunk_size
            ELSE /\ Len(PageRequests(call)) = k
                 /\ pc \notin { "page_send", "page_wait" }

\* the filter removed every row of a full first page and a second request followed
C2_Witness ==
    /\ args.param_filter
    /\ Len(received) >= 1
    /\ RowCount(received[1]) = args.chunk_size
    /\ args.chunk_size = 2
    /\ all_filtered_urls = <<>>
    /\ Len(PageRequests(call)) = 2
    /\ PageRequests(call)[2].offset = 2

\* the first column of the rows under the header row of a body
NonHeaderUrls(body) == [k \in 1..RowCount(body) |-> body[k + 1][1]]

\* the URLs of us that the run yields: all of them, or with the parameter
\* filter those that contain an allowed parameter
Accepted(us) == IF args.param_filter THEN SelectSeq(us, AnyAllowedParam) ELSE us

\* the URLs that a sequence of bodies yields, page after page
RECURSIVE YieldOf(_)
YieldOf(bodies) ==
    IF bodies = <<>> THEN <<>>
    ELSE Accepted(NonHeaderUrls(Head(bodies))) \o YieldOf(Tail(bodies))

(***************************************************************************)
(* C3.  A page request that fails ends the fetch of its domain: the call   *)
(* prints one diagnostic, naming the domain and the offset of the failed   *)
(* request; that request is the last one of the call and the only one at   *)
(* its offset; the process goes on; and the call returns the URLs of the   *)
(* pages received before the failure.                                      *)
(***************************************************************************)
C3_FailureEndsFetch ==
    /\ \A c \in 1..call :
          /\ Len(Diagnostics(c)) <= 1
          /\ Diagnostics(c) # <<>> =>
                /\ Diagnostics(c)[1].s = Last(PageRequests(c)).target
                /\ Diagnostics(c)[1].n = Last(PageRequests(c)).offset
                /\ \A j \in 1..(Len(PageRequests(c)) - 1) :
                      PageRequests(c)[j].offset # Diagnostics(c)[1].n
    /\ Diagnostics(call) # <<>> => exit_code \in { None, Some(0) }
    /\ (Returned /\ LastRequestFailed) =>
          /\ Last(stderr) = Line("fetch_error", domain, offset, call)
          /\ urls = all_filtered_urls
          /\ urls = YieldOf(received)

\* the second page request failed and the first page's URLs are returned
C3_Witness ==
    /\ Returned /\ LastRequestFailed
    /\ Len(received) = 1
    /\ offset = args.chunk_size
    /\ urls # <<>>

(***************************************************************************)
(* C4.  In a run over a list of domains the calls are made in list order,  *)
(* each starts with a page request at offset 0 for its domain, and a       *)
(* failed page request of one domain leads to that domain's results being  *)
(* written and to the first page request of the domain after it.           *)
(***************************************************************************)
\* the first page request of the k-th domain of the list has been issued
Requested(k) ==
    /\ PageRequests(k) # <<>>
    /\ PageRequests(k)[1].target = domains[k]
    /\ PageRequests(k)[1].offset = 0

\* the totals, one per domain whose results have been written
Totals == SelectSeq(stdout, LAMBDA l : l.t = "total")

C4_ListOrder ==
    (Truthy(args.multiple_targets) /\ call >= 1) =>
        /\ call <= Len(domains)
        /\ domain = domains[call]
        /\ \A j \in 1..Len(net) : net[j].call <= call
        /\ \A j \in 1..(Len(net) - 1) : net[j].call <= net[j + 1].call
        /\ \A k \in 1..(call - 1) : Requested(k) /\ Len(Totals) >= k
        /\ pc \notin { "page_send" } => Requested(call)

C4_FailureKeepsGoing ==
    /\ []C4_ListOrder
    /\ \A k \in 1..MaxLines :
          (Truthy(args.multiple_targets) /\ k < Len(domains) /\ Diagnostics(k) # <<>>)
              ~> (Len(Totals) >= k /\ Requested(k + 1))

\* after a failed request of the first domain the second domain is being fetched
C4_Witness ==
    /\ Truthy(args.multiple_targets)
    /\ call = 2
    /\ Diagnostics(1) # <<>>
    /\ Requested(2)
    /\ Len(Totals) >= 1

(***************************************************************************)
(* C5.  A malformed response of the index service is recovered like a      *)
(* failed request.  Stated for a body that is JSON with a row that has no  *)
(* element 0 (what a body that is not JSON does depends on the installed   *)
(* requests library): the process does not end with a traceback, and the   *)
(* call that received the body prints its diagnostic and returns.          *)
(***************************************************************************)
C5_MalformedRecovered ==
    (received # <<>> /\ HasEmptyRow(RawUrls(Last(received)))) =>
        /\ \A k \in 1..Len(stderr) : stderr[k] # Line("traceback", "IndexError", 0, 0)
        /\ exit_code # Some(1)
        /\ Diagnostics(call) # <<>>

(***************************************************************************)
(* C6.  The list fetch_wayback_urls returns is the concatenation, page     *)
(* after page and row after row, of the first column of the rows under the *)
(* header row of every body received, without the URLs the parameter       *)
(* filter rejects when it is on: no header, no reordering, no              *)
(* deduplication, nothing else dropped.                                    *)
(***************************************************************************)
\* the current call has returned (and no later call has begun)
FetchDone == call >= 1 /\ pc \notin { "page_send", "page_wait" } /\ exit_code # Some(1)

C6_ResultIsConcatenation ==
    /\ (call >= 1 /\ pc \in { "page_send", "page_wait" }) =>
          all_filtered_urls = YieldOf(received)
    /\ FetchDone => urls = YieldOf(received)

\* two pages, the filter on, one of three URLs kept
C6_Witness ==
    /\ Returned
    /\ args.param_filter
    /\ Len(received) = 2
    /\ RowCount(received[1]) = 2 /\ RowCount(received[2]) = 1
    /\ urls = << U_ID >>

(***************************************************************************)
(* C7.  get_urls_through_proxy over n URLs reports n as the total and, as  *)
(* the successes, the number of GETs that ended without an exception of    *)
(* the transport: a response with a non-2xx status is a success and each   *)
(* exception lowers the count by one.                                      *)
(***************************************************************************)
\* the replay of the current call's URLs is over
ReplayDone ==
    /\ Truthy(args.burp_proxy)
    /\ call >= 1
    /\ \/ pc \in { "end_main", "for_domain" }
       \/ pc = "exited" /\ exit_code = Some(0)

Responses == CopiesIn("2xx", outcomes) + CopiesIn("non2xx", outcomes)

C7_ReplayCounts ==
    /\ (pc \in { "replay_send", "replay_wait", "replay_end" } \/ ReplayDone) =>
          /\ total_ok = Responses
          /\ total_ok = BagCardinality(outcomes) - CopiesIn("exception", outcomes)
    /\ ReplayDone =>
          /\ BagCardinality(outcomes) = Len(urls)
          /\ Last(stdout) = Line("finished", "", Responses, Len(urls))

\* three URLs, one exception, one non-2xx response: 2 / 3
C7_Witness ==
    /\ ReplayDone
    /\ Len(urls) = 3
    /\ CopiesIn("exception", outcomes) = 1
    /\ CopiesIn("non2xx", outcomes) = 1
    /\ Last(stdout) = Line("finished", "", 2, 3)

(***************************************************************************)
(* C8.  The replay requests every URL of the list once, in the order of    *)
(* the list, whatever the outcomes of the earlier requests.                *)
(***************************************************************************)
ReplayTargets(c) == [k \in 1..Len(ReplayRequests(c)) |-> ReplayRequests(c)[k].target]

C8_ReplayEveryUrlOnce ==
    /\ ~Truthy(args.burp_proxy) => \A j \in 1..Len(net) : net[j].kind = "page"
    /\ (call >= 1 /\ pc \in { "page_send", "page_wait", "output" }) =>
          ReplayRequests(call) = <<>>
    /\ (pc \in { "replay_send", "replay_wait", "replay_end" } \/ ReplayDone) =>
          ReplayTargets(call) = SubSeq(urls, 1, i)
    /\ (pc = "replay_end" \/ ReplayDone) => ReplayTargets(call) = urls

\* both of two requests ended in an exception and both were made
C8_Witness ==
    /\ ReplayDone
    /\ Len(urls) = 2
    /\ CopiesIn("exception", outcomes) = 2
    /\ ReplayTargets(call) = urls

(***************************************************************************)
(* C9.  A configuration error (no target, both kinds of target, or a       *)
(* domain-list file that does not exist; an empty string counts as no      *)
(* target) ends the process with a message and a status other than 0, and  *)
(* no request is ever issued in that run.                                  *)
(***************************************************************************)
ConfigError ==
    LET single == Truthy(args.single_target)
        multi  == Truthy(args.multiple_targets)
    IN  \/ ~single /\ ~multi
        \/ single /\ multi
        \/ ~single /\ multi /\ ~Exists(Strip(args.multiple_targets[1]))

C9_ConfigErrorsFatal ==
    ConfigError =>
        /\ net = <<>>
        /\ inflight = {}
        /\ call = 0
        /\ pc \in { "parse_args", "multiple_targets", "exited" }
        /\ pc = "exited" =>
              /\ exit_code \in { Some(1), Some(2) }
              /\ Len(stderr) = 1
              /\ stderr[1].t \in { "usage", "no_file" }
              /\ stderr[1].s # ""

\* both kinds of target were given and the process has ended with status 2
C9_Witness ==
    /\ Truthy(args.single_target) /\ Truthy(args.multiple_targets)
    /\ pc = "exited"
    /\ exit_code = Some(2)
    /\ net = <<>>

(***************************************************************************)
(* C10.  fetch_wayback_urls is never called with the empty domain, and no  *)
(* page request names it, in a single-target run as in a run over a list.  *)
(***************************************************************************)
C10_NoEmptyDomain ==
    /\ call >= 1 => domain # ""
    /\ \A j \in 1..Len(net) : net[j].kind = "page" => net[j].target # ""

(***************************************************************************)
(* C11.  The output file is only appended to.  Every step leaves it as it  *)
(* is, except the output step of a call in a run with an output file,      *)
(* which appends the list that call returned, one URL per line in the      *)
(* order of the list.  So the file always begins with what it held before  *)
(* the run and with what earlier domains wrote, also when a later fetch    *)
(* fails.                                                                  *)
(***************************************************************************)
IsPrefix(p, q) == Len(p) <= Len(q) /\ SubSeq(q, 1, Len(p)) = p

UrlLines(us) == [k \in 1..Len(us) |-> us[k] \o "\n"]

C11_AppendStep ==
    /\ IsPrefix(outfile, outfile')
    /\ IF pc = "output" /\ args.output_file # None
       THEN outfile' = outfile \o UrlLines(urls)
       ELSE outfile' = outfile

C11_FileOnlyAppended ==
    /\ [](IsPrefix(OLD_CONTENT, outfile))
    /\ [](args.output_file = None => outfile = OLD_CONTENT)
    /\ [][C11_AppendStep]_vars

\* the first domain's URLs are in the file, after the old content, and the
\* fetch of the second domain has failed and its output step is done
C11_Witness ==
    /\ args.output_file # None
    /\ call = 2
    /\ Diagnostics(2) # <<>>
    /\ Len(Totals) = 2
    /\ Len(outfile) > Len(OLD_CONTENT) + Len(urls)
    /\ IsPrefix(OLD_CONTENT, outfile)

(***************************************************************************)
(* C12.  The parameter filter accepts a URL iff one of the allow-list's    *)
(* "?name=" entries occurs in it as a literal substring, wherever:         *)
(* "http://x.com/?id=5" is accepted, "http://x.com/page?foo=1" and         *)
(* "http://x.com/keyword=1" are not.  With the filter on, the list a fetch *)
(* returns holds exactly the received URLs that are accepted, in the order *)
(* received.                                                               *)
(***************************************************************************)
\* s occurs in u between some two positions
OccursIn(s, u) == \E a \in 1..Len(u) : \E b \in a..Len(u) : SubSeq(u, a, b) = s

\* the URLs of the catalogue holding an entry of the allow-list
C12_Acceptable ==
    { CATALOGUE[n] : n \in { m \in 1..Len(CATALOGUE) :
        \E k \in 1..Len(ALLOWED_PARAMS) : OccursIn(ALLOWED_PARAMS[k], CATALOGUE[m]) } }

\* the URLs under the header rows of the bodies, page after page
RECURSIVE ReceivedUrls(_)
ReceivedUrls(bodies) ==
    IF bodies = <<>> THEN <<>>
    ELSE NonHeaderUrls(Head(bodies)) \o ReceivedUrls(Tail(bodies))

C12_FilterBySubstring ==
    /\ C12_Acceptable = { U_ID }
    /\ (Returned /\ args.param_filter) =>
          /\ AnyAllowedParam(U_ID)
          /\ ~AnyAllowedParam(U_FOO)
          /\ ~AnyAllowedParam(U_KEYWORD)
          /\ urls = SelectSeq(ReceivedUrls(received), LAMBDA u : u \in C12_Acceptable)

\* all three URLs were received and only the one with "?id=" is returned
C12_Witness ==
    /\ Returned
    /\ args.param_filter
    /\ ReceivedUrls(received) = << U_ID, U_FOO, U_KEYWORD >>
    /\ urls = << U_ID >>

(***************************************************************************)
(* C13.  With a time window of y years, y >= 1, asked for in year Y, every *)
(* page request of every domain carries from = Y - y and to = Y; with no   *)
(* time window asked for, no page request carries a from or a to.  (The    *)
(* code takes "-t 0" as no window: "if years and years > 0".)              *)
(***************************************************************************)
C13_Window ==
    IF args.years = None THEN None
    ELSE IF args.years[1] >= 1
         THEN << << CURRENT_YEAR - args.years[1], CURRENT_YEAR >> >>
         ELSE None

C13_TimeWindow ==
    \A j \in 1..Len(net) :
        net[j].kind = "page" => net[j].window = C13_Window

\* two domains were asked, each page by page, for the last two years
C13_Witness ==
    /\ args.years = << 2 >>
    /\ call = 2
    /\ Len(PageRequests(1)) >= 2
    /\ PageRequests(2) # <<>>
    /\ \A j \in 1..Len(net) : net[j].window = << << CURRENT_YEAR - 2, CURRENT_YEAR >> >>

\* no window was asked for and the requests carry none
C13_WitnessNone ==
    /\ args.years = None
    /\ Len(PageRequests(1)) >= 2
    /\ \A j \in 1..Len(net) : net[j].window = None

(***************************************************************************)
(* C14.  In the output of a domain the line with the count comes last: no  *)
(* URL line of the domain is printed after it.  The code prints the count  *)
(* first (print of "Total URLs collected"), then the URLs, so this fails   *)
(* as soon as a domain with one URL is printed to the standard output.     *)
(***************************************************************************)
C14_CountLineFinal ==
    \A k \in 1..Len(stdout) :
        stdout[k].t = "total" => (k = Len(stdout) \/ stdout[k + 1].t # "url")

(***************************************************************************)
(* C15.  The page requests of one call of fetch_wayback_urls carry the     *)
(* offsets 0, N, 2N, ... for the page size N: the request number k,        *)
(* counting from 0, has offset k * N and limit N, so no offset is asked    *)
(* for twice in a call.  The offset starts at 0, grows by N with a page of *)
(* N rows and does not change in any other step of the call.               *)
(***************************************************************************)
\* the body answering the page request in flight was full
FullPageArrived ==
    /\ pc = "page_wait"
    /\ pc' = "page_send"
    /\ Len(received') = Len(received) + 1
    /\ RowCount(Last(received')) = args.chunk_size

C15_OffsetStep ==
    IF call' # call THEN offset' = 0
    ELSE IF FullPageArrived THEN offset' = offset + args.chunk_size
    ELSE offset' = offset

C15_OffsetsAreMultiples ==
    /\ [](\A j \in 1..Len(net) : net[j].kind = "page" =>
            /\ net[j].limit = args.chunk_size
            /\ net[j].offset =
                 args.chunk_size * (Len(SelectSeq(SubSeq(net, 1, j),
                     LAMBDA r : r.kind = "page" /\ r.call = net[j].call)) - 1))
    /\ [](\A j, k \in 1..Len(net) :
            (net[j].kind = "page" /\ net[k].kind = "page" /\ net[j].call = net[k].call
             /\ net[j].offset = net[k].offset) => j = k)
    /\ [][C15_OffsetStep]_vars

\* the second call has asked for two pages of two rows, at offsets 0 and 2
C15_Witness ==
    /\ args.chunk_size = 2
    /\ call = 2
    /\ Len(PageRequests(call)) = 2
    /\ Last(net).kind = "page"
    /\ Last(net).offset = 2

(***************************************************************************)
(* C16.  The run is sequential.  At most one request, page or replay, is   *)
(* in flight at any time, and one is issued only when none is in flight.   *)
(* The requests of a domain are not mixed with those of another, and with  *)
(* a proxy the replay requests of a domain are the URLs its fetch          *)
(* returned, each once and in order, all issued after the last page        *)
(* request of the domain and before the first page request of the next     *)
(* domain.                                                                 *)
(***************************************************************************)
\* request j was issued before request k: the domain of j is not after
\* that of k and, in one domain, a replay request is not before a page request
InOrder(j, k) ==
    /\ net[j].call <= net[k].call
    /\ net[j].call = net[k].call => ~(net[j].kind = "replay" /\ net[k].kind = "page")

C16_SequentialStep ==
    /\ IsPrefix(net, net')
    /\ net' # net =>
          /\ Len(net') = Len(net) + 1
          /\ Last(net').call = call'
          /\ inflight = {}
          /\ inflight' = { Last(net') }
    /\ (call' # call /\ call >= 1 /\ args.burp_proxy # None /\ args.burp_proxy # << "" >>) =>
          ReplayTargets(call) = urls

C16_Sequential ==
    /\ [](Cardinality(inflight) <= 1)
    /\ [](\A j, k \in 1..Len(net) : j < k => InOrder(j, k))
    /\ [](ReplayDone => ReplayTargets(call) = urls)
    /\ [][C16_SequentialStep]_vars

\* the URL of the first domain was replayed, then the second domain was
\* fetched in two pages and the second of its replay requests is in flight
C16_Witness ==
    /\ args.multiple_targets # None
    /\ call = 2
    /\ Len(ReplayRequests(1)) = 1
    /\ Len(PageRequests(2)) = 2
    /\ Len(ReplayRequests(2)) = 2
    /\ inflight = { Last(net) }

(***************************************************************************)
(* C17.  Against an index of M URLs, a call of fetch_wayback_urls with     *)
(* page size N >= 1 issues at most floor(M/N) + 1 page requests, whichever *)
(* of them succeed and fail, and it ends: a fetch that is going on is      *)
(* eventually over.  The whole run, the fetches and the replays of all the *)
(* domains, eventually ends.                                               *)
(***************************************************************************)
Fetching == pc \in { "page_send", "page_wait" }

RequestBound(c) == (Len(index[PageRequests(c)[1].target]) \div args.chunk_size) + 1

C17_Terminates ==
    /\ [](\A c \in 1..call : PageRequests(c) # <<>> => Len(PageRequests(c)) <= RequestBound(c))
    /\ Fetching ~> ~Fetching
    /\ <>(pc = "exited")

\* a list of two domains is done; the fetch of the second took two successful
\* requests and a failed one, as many as the bound allows, and its URLs were
\* replayed
C17_Witness ==
    /\ pc = "exited"
    /\ args.multiple_targets # None
    /\ call = 2
    /\ Len(received) = 2
    /\ Diagnostics(2) # <<>>
    /\ Len(PageRequests(2)) = 3
    /\ RequestBound(2) = 3
    /\ Len(ReplayRequests(2)) = 2

(***************************************************************************)
(* C18.  Without the parameter filter and with no request failing, the     *)
(* list fetch_wayback_urls returns is the listing of the domain, position  *)
(* by position: nothing is skipped and nothing is repeated where one page  *)
(* ends and the next begins.  When the request at offset f fails, the list *)
(* returned is the first f URLs of the listing.                            *)
(***************************************************************************)
\* the offset of the request that failed in call c, from its diagnostic
FailedOffset(c) == Diagnostics(c)[1].n

C18_ExactListing ==
    (Returned /\ ~args.param_filter) =>
        /\ NoRequestFailed =>
              /\ Len(urls) = Len(index[domain])
              /\ \A n \in 1..Len(urls) : urls[n] = index[domain][n]
        /\ LastRequestFailed =>
              /\ Len(Diagnostics(call)) = 1
              /\ Len(urls) = FailedOffset(call)
              /\ \A n \in 1..Len(urls) : urls[n] = index[domain][n]

\* a listing of three URLs, one of them twice, fetched in pages of two
C18_Witness ==
    /\ Returned /\ ~args.param_filter /\ NoRequestFailed
    /\ args.chunk_size = 2
    /\ Len(received) = 2
    /\ index[domain] = << U_FOO, U_KEYWORD, U_FOO >>
    /\ urls = index[domain]

\* the second request, at offset 2, failed: the first two of three URLs
C18_WitnessPrefix ==
    /\ Returned /\ ~args.param_filter /\ LastRequestFailed
    /\ FailedOffset(call) = 2
    /\ Len(index[domain]) = 3
    /\ urls = SubSeq(index[domain], 1, 2)

====
